---- MODULE Spec2Model ----
\* GoGrid driver (libcloud/drivers/gogrid.py): response classification,
\* list_nodes password correlation, unassigned-IP allocation and the
\* create_node id-allocation polling loop, as one client calling the provider.
EXTENDS Integers, Sequences, FiniteSets, TLC

VARIABLES
    op,           \* the driver method the caller invoked ("none" before the call)
    pc,           \* position inside that method
    location,     \* kwargs.get('location') / location argument (location.id or None)
    first_ip,     \* ex_create_node_nowait: local first_ip
    node,         \* create_node: local node
    waittime,     \* create_node: local waittime
    res,          \* list_nodes: local res (the server-list envelope's list)
    nodes,        \* list_nodes result / create_node: local nodes
    reply,        \* what the provider answered to the most recent request
    lastRequest,  \* the most recent request handed to connection.request
    nreq,         \* requests issued so far, per endpoint
    sleeps,       \* time.sleep calls so far
    response,     \* the GoGridResponse (status, body) the classifier looks at
    result,       \* how the invoked method ended
    record,       \* the record handed to a mapper method called on its own
    time_time,    \* GoGridConnection: the clock time.time() reads, in half seconds
    user_id,      \* GoGridConnection: self.user_id (the api key)
    self_key,     \* GoGridConnection: self.key (the shared secret)
    wire,         \* GoGridConnection: the parameter sets built so far, oldest first
    flows,        \* two ex_create_node_nowait calls in flight: position, first_ip, the ip list given, the ip POSTed
    unassigned    \* the provider's unassigned public addresses, in listing order

\* The connection's signing state.
signing == <<time_time, user_id, self_key, wire>>

\* Interleaved create calls against one provider account.
racing == <<flows, unassigned>>

\* What the driver's request-issuing methods never touch.
outside == <<record, signing, racing>>

\* The driver's own state.
driver == <<op, pc, location, first_ip, node, waittime, res, nodes, reply,
            lastRequest, nreq, sleeps, response, result, record>>

vars == <<op, pc, location, first_ip, node, waittime, res, nodes, reply,
          lastRequest, nreq, sleeps, response, result, outside>>

-----------------------------------------------------------------------------
\* Bounds of the model.

MaxServers == 2      \* longest server list the provider answers with
MaxPasswords == 2    \* longest password list the provider answers with
MaxIps == 2          \* longest unassigned-IP list the provider answers with
MaxImages == 2       \* longest image list the provider answers with
MaxTicks == 4        \* clock ticks (half seconds) the connection is watched for
MaxRequests == 2     \* parameter sets the connection builds
MaxLocations == 2    \* longest datacenter list the provider answers with

-----------------------------------------------------------------------------
\* Python values.

None == "None"
PyTrue == "True"
PyFalse == "False"

\* An outcome of a call: a returned value or a raised exception.
Return(v) == [raised |-> FALSE, exc |-> "none", msg |-> None, val |-> v]
Raise(e, m) == [raised |-> TRUE, exc |-> e, msg |-> m, val |-> None]

\* Python truthiness of a string-or-None value: None and '' are falsy.
Truthy(v) == v # None /\ v # "" /\ v # PyFalse

-----------------------------------------------------------------------------
\* Provider data.

IDS == {"id1", "id2"}
IPS == {"ip1", "ip2"}
DATACENTERS == {"dc1"}

\* A server record of /api/grid/server/list and /api/grid/server/add; id is
\* None until the provider allocates one. state.kind tells what the 'state'
\* field holds: "object" (with or without a 'name'), "string", "null", or
\* "absent" when the record has no such field.
ServerRecords ==
    [id : IDS \cup {None}, ip : [ip : IPS], name : {"web"},
     state : {[kind |-> "object", has_name |-> TRUE, name |-> "On"]}, ram : [name : {"1GB"}], isSandbox : {"false"}]

\* An entry of /api/support/password/list; has_server_id / has_password say
\* whether entry['server']['id'] / entry['password'] exist.
PasswordEntries ==
    { [has_server_id |-> TRUE, server_id |-> "id1", has_password |-> TRUE, password |-> "pw1"],
      [has_server_id |-> TRUE, server_id |-> "id1", has_password |-> TRUE, password |-> "pw2"],
      [has_server_id |-> TRUE, server_id |-> "id1", has_password |-> TRUE, password |-> ""],
      [has_server_id |-> TRUE, server_id |-> "id2", has_password |-> TRUE, password |-> "pw2"],
      [has_server_id |-> FALSE, server_id |-> None, has_password |-> TRUE, password |-> "pw1"],
      [has_server_id |-> TRUE, server_id |-> "id2", has_password |-> FALSE, password |-> None] }

\* An entry of /api/grid/ip/list.
IpEntries == [ip : IPS]

\* An entry of /api/grid/image/list.
ImageRecords == [id : {"img1", "img2"}, friendlyName : {"CentOS 5.3"}]

\* An entry of /api/common/lookup/list for lookup = ip.datacenter.
LocationRecords == [id : {"dc1", "dc2"}, name : {"US-West-1"}]

\* The create calls running side by side.
FLOWS == {"flow1", "flow2"}

SeqsUpTo(S, n) == UNION { [1..k -> S] : k \in 0..n }

\* Errors connection.request itself can raise instead of answering.
REQUEST_ERRORS == {"InvalidCredsError", "MalformedResponseError", "socket.error"}

\* What a request for a list endpoint comes back with: the envelope's list,
\* or an exception raised by connection.request.
Answers(S, n) ==
    { [exc |-> "none", list |-> l] : l \in SeqsUpTo(S, n) }
      \cup { [exc |-> e, list |-> <<>>] : e \in REQUEST_ERRORS }

NoReply == [exc |-> "none", list |-> <<>>]
NoRequest == [path |-> "none", method |-> "none", params |-> <<>>]
NoResponse == [status |-> 0, body |-> ""]

ENDPOINTS == {"/api/grid/ip/list", "/api/grid/server/add", "/api/grid/server/list",
              "/api/support/password/list", "/api/grid/server/power",
              "/api/grid/server/delete", "/api/grid/image/list",
              "/api/common/lookup/list"}

-----------------------------------------------------------------------------
\* Response bodies and json.loads.

STATUSES == {200, 401, 403}

BODIES ==
    { "",
      "<html>Bad Gateway</html>",
      "{\"status\":\"success\"}",
      "{\"status\":\"success\",\"list\":[{\"id\":1}]}",
      "{\"status\":\"failure\"}",
      "{\"status\":\"failure\",\"list\":[]}",
      "{\"status\":\"failure\",\"list\":[{\"message\":\"Server not found\"}]}",
      "{\"list\":[]}",
      "{\"list\":[{\"message\":\"Server not found\"}]}",
      "[]",
      "null" }

JObject(hasStatus, status, hasList, list) ==
    [valid |-> TRUE, type |-> "object", has_status |-> hasStatus, status |-> status,
     has_list |-> hasList, list |-> list]
JOther(t) ==
    [valid |-> TRUE, type |-> t, has_status |-> FALSE, status |-> None,
     has_list |-> FALSE, list |-> <<>>]
JInvalid ==
    [valid |-> FALSE, type |-> "none", has_status |-> FALSE, status |-> None,
     has_list |-> FALSE, list |-> <<>>]
JEntry(hasMessage, message) == [has_message |-> hasMessage, message |-> message]

\* json.loads(body): the decoded value, or valid = FALSE where it raises
\* ValueError.
json_loads(body) ==
    CASE body = "{\"status\":\"success\"}" -> JObject(TRUE, "success", FALSE, <<>>)
      [] body = "{\"status\":\"success\",\"list\":[{\"id\":1}]}" ->
            JObject(TRUE, "success", TRUE, <<JEntry(FALSE, None)>>)
      [] body = "{\"status\":\"failure\"}" -> JObject(TRUE, "failure", FALSE, <<>>)
      [] body = "{\"status\":\"failure\",\"list\":[]}" -> JObject(TRUE, "failure", TRUE, <<>>)
      [] body = "{\"status\":\"failure\",\"list\":[{\"message\":\"Server not found\"}]}" ->
            JObject(TRUE, "failure", TRUE, <<JEntry(TRUE, "Server not found")>>)
      [] body = "{\"list\":[]}" -> JObject(FALSE, None, TRUE, <<>>)
      [] body = "{\"list\":[{\"message\":\"Server not found\"}]}" ->
            JObject(FALSE, None, TRUE, <<JEntry(TRUE, "Server not found")>>)
      [] body = "[]" -> JOther("array")
      [] body = "null" -> JOther("null")
      [] OTHER -> JInvalid

-----------------------------------------------------------------------------
\* GoGridResponse.

\* success() with the empty-body test moved ahead of the status tests.
success_body_first(r) ==
    IF r.body = "" THEN Return(None)
    ELSE IF r.status = 403 THEN Raise("InvalidCredsError", "Invalid credentials")
    ELSE IF r.status = 401 THEN Raise("InvalidCredsError", "API Key has insufficient rights")
    ELSE LET j == json_loads(r.body) IN
         IF ~j.valid THEN Raise("MalformedResponseError", r.body)
         ELSE IF j.type # "object" THEN Raise("TypeError", None)
         ELSE IF ~j.has_status THEN Raise("KeyError", "status")
         ELSE Return(IF j.status = "success" THEN PyTrue ELSE PyFalse)

\* success(): True / False / None, or the exception raised.
success(r) ==
    IF r.status = 403 THEN Raise("InvalidCredsError", "Invalid credentials")
    ELSE IF r.status = 401 THEN Raise("InvalidCredsError", "API Key has insufficient rights")
    ELSE IF r.body = "" THEN Return(None)
    ELSE LET j == json_loads(r.body) IN
         IF ~j.valid THEN Raise("MalformedResponseError", r.body)
         ELSE IF j.type # "object" THEN Raise("TypeError", None)
         ELSE IF ~j.has_status THEN Raise("KeyError", "status")
         ELSE Return(IF j.status = "success" THEN PyTrue ELSE PyFalse)

\* parse_error(): only ValueError is caught.
parse_error(r) ==
    LET j == json_loads(r.body) IN
    IF ~j.valid THEN Return(None)
    ELSE IF j.type # "object" THEN Raise("TypeError", None)
    ELSE IF ~j.has_list THEN Raise("KeyError", "list")
    ELSE IF Len(j.list) = 0 THEN Raise("IndexError", None)
    ELSE IF ~j.list[1].has_message THEN Raise("KeyError", "message")
    ELSE Return(j.list[1].message)

-----------------------------------------------------------------------------
\* Entity mapper. NODE_STATE is the module-level table STATE.

NODE_STATE ==
    [n \in {"Starting", "On", "Off", "Restarting", "Saving", "Restoring"} |->
        CASE n = "On" -> "RUNNING"
          [] n = "Restarting" -> "REBOOTING"
          [] OTHER -> "PENDING"]

\* What the state field of a record handed to _get_state may look like.
STATE_NAMES == DOMAIN NODE_STATE \cup {"Paused"}

StateFields ==
    { [kind |-> "object", has_name |-> TRUE, name |-> n] : n \in STATE_NAMES }
      \cup { [kind |-> k, has_name |-> FALSE, name |-> None] :
                k \in {"object", "string", "null", "absent"} }

\* STATE[element['state']['name']], with the exception each step can raise.
state_lookup(el) ==
    LET s == el.state IN
    IF s.kind = "absent" THEN Raise("KeyError", "state")
    ELSE IF s.kind # "object" THEN Raise("TypeError", None)
    ELSE IF ~s.has_name THEN Raise("KeyError", "name")
    ELSE IF s.name \notin DOMAIN NODE_STATE THEN Raise("KeyError", s.name)
    ELSE Return(NODE_STATE[s.name])

\* _get_state catching KeyError alone.
get_state_call_keyerror_only(el) ==
    LET r == state_lookup(el) IN
    IF r.raised /\ r.exc = "KeyError" THEN Return("UNKNOWN") ELSE r

\* _get_state as a call: the bare except swallows whatever the lookup raises.
get_state_call(el) ==
    LET r == state_lookup(el) IN
    IF r.raised THEN Return("UNKNOWN") ELSE r

get_state(el) == get_state_call(el).val

get_ip(element) == element.ip.ip

get_id(element) == element.id

\* _to_node testing `password is not None` instead of the truth value.
to_node_not_none(element, password) ==
    LET extra == [ram |-> element.ram.name, isSandbox |-> (element.isSandbox = "true")] IN
    [id |-> element.id,
     name |-> element.name,
     state |-> "RUNNING",
     public_ip |-> <<element.ip.ip>>,
     private_ip |-> <<>>,
     extra |-> IF password # None
               THEN [ram |-> extra.ram, isSandbox |-> extra.isSandbox, password |-> password]
               ELSE extra]

\* _to_node(element, password): extra gets 'password' only for a truthy one.
to_node(element, password) ==
    LET extra == [ram |-> element.ram.name, isSandbox |-> (element.isSandbox = "true")] IN
    [id |-> get_id(element),
     name |-> element.name,
     state |-> get_state(element),
     public_ip |-> <<get_ip(element)>>,
     private_ip |-> <<>>,
     extra |-> IF Truthy(password)
               THEN [ram |-> extra.ram, isSandbox |-> extra.isSandbox, password |-> password]
               ELSE extra]

NoNode ==
    [id |-> None, name |-> "", state |-> "UNKNOWN", public_ip |-> <<>>,
     private_ip |-> <<>>, extra |-> [ram |-> "", isSandbox |-> FALSE]]

-----------------------------------------------------------------------------
\* GoGridNode.get_uuid. Strings are sequences of tokens; a digest is its
\* input under a tag (no two inputs collide).

DIGITS == <<"0", "1", "2", "3", "4", "5", "6", "7", "8", "9">>

\* str(n) / "%d" % n for n >= 0
RECURSIVE str_int(_)
str_int(n) == IF n < 10 THEN <<DIGITS[n + 1]>> ELSE str_int(n \div 10) \o <<DIGITS[(n % 10) + 1]>>

\* "%s" % list, for a list of unicode strings: [u'a', u'b']
RECURSIVE repr_items(_, _)
repr_items(list, i) ==
    IF i > Len(list) THEN <<>>
    ELSE (IF i > 1 THEN <<", ">> ELSE <<>>) \o <<"u'", list[i], "'">> \o repr_items(list, i + 1)

str_list(list) == <<"[">> \o repr_items(list, 1) \o <<"]">>

sha1_hexdigest(text) == <<"sha1">> \o text

\* Provider.GOGRID, the driver's type (the enumeration is libcloud's).
Provider_GOGRID == 5

\* get_uuid hashing the provider's id as well.
get_uuid_with_id(n) ==
    sha1_hexdigest(<<n.id, ":">> \o str_list(n.public_ip) \o <<":">> \o str_int(5))

\* sha1("%s:%d" % (self.public_ip, self.driver.type)).hexdigest()
get_uuid(n) ==
    sha1_hexdigest(str_list(n.public_ip) \o <<":">> \o str_int(Provider_GOGRID))

-----------------------------------------------------------------------------
\* list_nodes: the password correlation.

EmptyMap == [k \in {} |-> None]

\* passwords_map[key] = value
MapSet(m, key, value) ==
    [k \in DOMAIN m \cup {key} |-> IF k = key THEN value ELSE m[k]]

\* passwords_map.get(key)
MapGet(m, key) == IF key \in DOMAIN m THEN m[key] ELSE None

\* The for loop over the password list: an entry lacking server.id or
\* password raises KeyError, which is passed over.
RECURSIVE build_passwords_map(_, _, _)
build_passwords_map(list, i, m) ==
    IF i > Len(list) THEN m
    ELSE LET password == list[i] IN
         IF password.has_server_id /\ password.has_password
         THEN build_passwords_map(list, i + 1, MapSet(m, password.server_id, password.password))
         ELSE build_passwords_map(list, i + 1, m)

\* What the try block around the password fetch leaves in passwords_map;
\* InvalidCredsError is the one exception it swallows.
passwords_map_of(answer) ==
    IF answer.exc = "none" THEN build_passwords_map(answer.list, 1, EmptyMap) ELSE EmptyMap

\* list_nodes with no except clause around the password fetch.
password_list_raises_any(answer) == answer.exc # "none"

\* list_nodes with a bare except around the password fetch.
password_list_raises_never(answer) == FALSE

password_list_raises(answer) == answer.exc \notin {"none", "InvalidCredsError"}

\* The list comprehension list_nodes returns.
merge_nodes(list, m) ==
    [i \in 1..Len(list) |-> to_node(list[i], MapGet(m, get_id(list[i])))]

-----------------------------------------------------------------------------
\* create_node: constants and the scan of one poll.

timeout == 60 * 20
interval == 2 * 60

\* `id` on line 327 is the Python builtin function, which is never None.
builtin_id_is_None == FALSE

\* The while condition with <= for <.
loop_condition_inclusive(n, w) == n.id = None /\ w <= 60 * 20

\* The while condition without the test of node.id.
loop_condition_ignores_id(n, w) == w < 60 * 20

\* The while condition of the polling loop.
loop_condition(n, w) == n.id = None /\ w < timeout

\* The scan without the early return: the last matching record wins.
RECURSIVE last_match(_, _, _)
last_match(list, n, i) ==
    IF i > Len(list) THEN 0
    ELSE LET later == last_match(list, n, i + 1) IN
         IF later # 0 THEN later
         ELSE IF list[i].public_ip[1] = n.public_ip[1] /\ list[i].id # None THEN i
         ELSE 0

\* The for loop over nodes: index of the record returned, 0 when none is.
RECURSIVE first_match(_, _, _)
first_match(list, n, i) ==
    IF i > Len(list) THEN 0
    ELSE IF list[i].public_ip[1] = n.public_ip[1] /\ list[i].id # None THEN i
    ELSE first_match(list, n, i + 1)

\* How create_node ends once the loop is left.
create_node_exit(n) ==
    IF builtin_id_is_None
    THEN Raise("Exception", "Wasn't able to wait for id allocation for the node")
    ELSE Return(n)

-----------------------------------------------------------------------------
\* Requests.

Request(path, method, params) == [path |-> path, method |-> method, params |-> params]

\* A request that is sent a second time.
Count_reissued(path) == [nreq EXCEPT ![path] = @ + 2]

Count(path) == [nreq EXCEPT ![path] = @ + 1]

ip_list_params(loc) ==
    LET params == ("ip.state" :> "Unassigned") @@ ("ip.type" :> "public") IN
    IF loc # None THEN params @@ ("datacenter" :> loc) ELSE params

\* _get_first_ip taking the last entry of the list.
get_last_ip(answer) ==
    IF answer.exc # "none" THEN Raise(answer.exc, None)
    ELSE IF Len(answer.list) > 0 THEN Return(answer.list[Len(answer.list)].ip)
    ELSE Raise("LibcloudError", "No public unassigned IPs left")

\* _get_first_ip passing over an address another create call holds.
get_first_ip_unheld(answer) ==
    LET held == { flows[f].first_ip : f \in { g \in FLOWS : flows[g].pc = "server_add" } }
        free(e) == e.ip \notin held
        list == SelectSeq(answer.list, free)
    IN IF answer.exc # "none" THEN Raise(answer.exc, None)
       ELSE IF Len(list) > 0 THEN Return(list[1].ip)
       ELSE Raise("LibcloudError", "No public unassigned IPs left")

\* _get_first_ip, after the request came back.
get_first_ip(answer) ==
    IF answer.exc # "none" THEN Raise(answer.exc, None)
    ELSE IF Len(answer.list) > 0 THEN Return(answer.list[1].ip)
    ELSE Raise("LibcloudError", "No public unassigned IPs left")

\* The POST's parameters with a fixed address in place of first_ip.
server_add_params_fixed_ip(ip) ==
    ("name" :> "web") @@ ("image" :> "img1") @@ ("description" :> "")
      @@ ("isSandbox" :> "false") @@ ("server.ram" :> "1GB") @@ ("ip" :> "ip1")

server_add_params(ip) ==
    ("name" :> "web") @@ ("image" :> "img1") @@ ("description" :> "")
      @@ ("isSandbox" :> "false") @@ ("server.ram" :> "1GB") @@ ("ip" :> ip)

\* reboot_node / destroy_node, after the POST came back with response r.
power_result(r) ==
    LET s == success(r) IN
    IF s.raised THEN s
    ELSE IF ~Truthy(s.val)
         THEN LET e == parse_error(r) IN
              IF e.raised THEN e ELSE Raise("Exception", e.val)
         ELSE Return(PyTrue)

Responses == [status : STATUSES, body : BODIES]

\* What a POST comes back with: a response, or an exception raised by
\* connection.request.
PowerAnswers ==
    { [exc |-> "none", response |-> r] : r \in Responses }
      \cup { [exc |-> e, response |-> NoResponse] : e \in REQUEST_ERRORS }

\* _to_image / _to_images
to_image(el) == [id |-> el.id, name |-> el.friendlyName]

to_images(list) == [i \in 1..Len(list) |-> to_image(list[i])]

\* _to_location / _to_locations
to_location(el) == [id |-> el.id, name |-> el.name, country |-> "US"]

to_locations(list) == [i \in 1..Len(list) |-> to_location(list[i])]

list_images_params(loc) == IF loc # None THEN ("datacenter" :> loc) ELSE <<>>

-----------------------------------------------------------------------------
\* The state machine.

DriverInit ==
    /\ op = "none"
    /\ pc = "idle"
    /\ location = None
    /\ first_ip = None
    /\ node = NoNode
    /\ waittime = 0
    /\ res = <<>>
    /\ nodes = <<>>
    /\ reply = NoReply
    /\ lastRequest = NoRequest
    /\ nreq = [p \in ENDPOINTS |-> 0]
    /\ sleeps = 0
    /\ response = NoResponse
    /\ result = Return(None)
    /\ record = [state |-> [kind |-> "absent", has_name |-> FALSE, name |-> None]]

\* A connection that has built nothing yet.
SigningIdle ==
    /\ time_time = 0
    /\ user_id = <<"a">>
    /\ self_key = <<"c">>
    /\ wire = <<>>

\* No create call in flight.
NoFlow == [pc |-> "idle", first_ip |-> None, reply |-> NoReply, posted |-> None]

RacingIdle ==
    /\ flows = [f \in FLOWS |-> NoFlow]
    /\ unassigned = <<>>

Init ==
    /\ DriverInit
    /\ SigningIdle
    /\ RacingIdle

\* The _get_first_ip call that opens o: the whole of _get_first_ip, and for
\* the create methods line 287 of ex_create_node_nowait.
FirstIpStep(o, loc, answer) ==
    LET r == get_first_ip(answer) IN
    /\ pc = "idle"
    /\ op' = o
    /\ location' = loc
    /\ lastRequest' = Request("/api/grid/ip/list", "GET", ip_list_params(loc))
    /\ nreq' = Count("/api/grid/ip/list")
    /\ reply' = answer
    /\ IF r.raised \/ o = "_get_first_ip"
       THEN /\ pc' = "done"
            /\ result' = r
            /\ first_ip' = first_ip
       ELSE /\ pc' = "server_add"
            /\ result' = result
            /\ first_ip' = r.val
    /\ UNCHANGED <<node, waittime, res, nodes, sleeps, response>>
    /\ UNCHANGED outside

call_get_first_ip ==
    \E loc \in DATACENTERS \cup {None}, answer \in Answers(IpEntries, MaxIps) :
        FirstIpStep("_get_first_ip", loc, answer)

call_ex_create_node_nowait ==
    \E loc \in DATACENTERS \cup {None}, answer \in Answers(IpEntries, MaxIps) :
        FirstIpStep("ex_create_node_nowait", loc, answer)

call_create_node ==
    \E loc \in DATACENTERS \cup {None}, answer \in Answers(IpEntries, MaxIps) :
        FirstIpStep("create_node", loc, answer)

\* ex_create_node_nowait from the server-add POST to its return; in create_node
\* followed by the initialisation of the loop's locals.
server_add ==
    /\ pc = "server_add"
    /\ \E answer \in Answers(ServerRecords, 1) :
         /\ lastRequest' = Request("/api/grid/server/add", "POST", server_add_params(first_ip))
         /\ nreq' = Count("/api/grid/server/add")
         /\ reply' = answer
         /\ first_ip' = None
         /\ location' = None
         /\ IF answer.exc # "none"
            THEN /\ pc' = "done"
                 /\ result' = Raise(answer.exc, None)
                 /\ UNCHANGED <<node, waittime>>
            ELSE IF Len(answer.list) = 0
            THEN /\ pc' = "done"
                 /\ result' = Raise("IndexError", None)
                 /\ UNCHANGED <<node, waittime>>
            ELSE /\ node' = to_node(answer.list[1], None)
                 /\ waittime' = 0
                 /\ IF op = "ex_create_node_nowait"
                    THEN pc' = "done" /\ result' = Return(node')
                    ELSE pc' = "while" /\ result' = result
    /\ UNCHANGED <<op, res, nodes, sleeps, response>>
    /\ UNCHANGED outside

\* list_nodes up to the return of _server_list.
ServerListStep(answer) ==
    /\ lastRequest' = Request("/api/grid/server/list", "GET", <<>>)
    /\ nreq' = Count("/api/grid/server/list")
    /\ reply' = answer
    /\ IF answer.exc # "none"
       THEN /\ pc' = "done"
            /\ result' = Raise(answer.exc, None)
            /\ res' = res
       ELSE /\ pc' = "password_list"
            /\ result' = result
            /\ res' = answer.list
    /\ UNCHANGED <<location, first_ip, node, waittime, nodes, sleeps, response>>
    /\ UNCHANGED outside

call_list_nodes ==
    /\ pc = "idle"
    /\ op' = "list_nodes"
    /\ \E answer \in Answers(ServerRecords, MaxServers) : ServerListStep(answer)

\* One more turn of the while loop: the condition holds and list_nodes is called.
create_node_poll ==
    /\ pc = "while"
    /\ loop_condition(node, waittime)
    /\ op' = op
    /\ \E answer \in Answers(ServerRecords, MaxServers) : ServerListStep(answer)

\* list_nodes from the password fetch to its return. The frame of a top-level
\* list_nodes is kept for inspection; back in create_node only nodes survives.
list_nodes_password_list ==
    /\ pc = "password_list"
    /\ \E answer \in Answers(PasswordEntries, MaxPasswords) :
         /\ lastRequest' = Request("/api/support/password/list", "GET", <<>>)
         /\ nreq' = Count("/api/support/password/list")
         /\ IF password_list_raises(answer)
            THEN /\ pc' = "done"
                 /\ result' = Raise(answer.exc, None)
                 /\ reply' = answer
                 /\ UNCHANGED <<res, nodes>>
            ELSE /\ nodes' = merge_nodes(res, passwords_map_of(answer))
                 /\ IF op = "list_nodes"
                    THEN /\ pc' = "done"
                         /\ result' = Return(nodes')
                         /\ reply' = answer
                         /\ res' = res
                    ELSE /\ pc' = "scan"
                         /\ result' = result
                         /\ reply' = NoReply
                         /\ res' = <<>>
    /\ UNCHANGED <<op, location, first_ip, node, waittime, sleeps, response>>
    /\ UNCHANGED outside

\* The rest of the loop body: the scan of nodes, then either the return of
\* the match or waittime += interval and time.sleep(interval).
create_node_scan ==
    /\ pc = "scan"
    /\ LET i == first_match(nodes, node, 1) IN
       IF i # 0
       THEN /\ pc' = "done"
            /\ result' = Return(nodes[i])
            /\ UNCHANGED <<waittime, sleeps, nodes>>
       ELSE /\ pc' = "while"
            /\ waittime' = waittime + interval
            /\ sleeps' = sleeps + 1
            /\ nodes' = <<>>
            /\ result' = result
    /\ UNCHANGED <<op, location, first_ip, node, res, reply, lastRequest, nreq, response>>
    /\ UNCHANGED outside

\* The loop is left: lines 327-330.
create_node_finish ==
    /\ pc = "while"
    /\ ~loop_condition(node, waittime)
    /\ pc' = "done"
    /\ result' = create_node_exit(node)
    /\ UNCHANGED <<op, location, first_ip, node, waittime, res, nodes, reply,
                   lastRequest, nreq, sleeps, response>>
    /\ UNCHANGED outside

PowerStep(o, path, params, a) ==
    /\ pc = "idle"
    /\ op' = o
    /\ pc' = "done"
    /\ lastRequest' = Request(path, "POST", params)
    /\ nreq' = Count(path)
    /\ reply' = [exc |-> a.exc, list |-> <<>>]
    /\ response' = a.response
    /\ result' = IF a.exc # "none" THEN Raise(a.exc, None) ELSE power_result(a.response)
    /\ UNCHANGED <<location, first_ip, node, waittime, res, nodes, sleeps>>
    /\ UNCHANGED outside

reboot_node ==
    \E id \in IDS, a \in PowerAnswers :
        PowerStep("reboot_node", "/api/grid/server/power",
                  ("id" :> id) @@ ("power" :> "restart"), a)

destroy_node ==
    \E id \in IDS, a \in PowerAnswers :
        PowerStep("destroy_node", "/api/grid/server/delete", ("id" :> id), a)

\* A method that is one request and the mapping of the list it answers.
ListStep(o, loc, request, answer, mapped) ==
    /\ pc = "idle"
    /\ op' = o
    /\ pc' = "done"
    /\ location' = loc
    /\ lastRequest' = request
    /\ nreq' = Count(request.path)
    /\ reply' = answer
    /\ result' = IF answer.exc # "none" THEN Raise(answer.exc, None) ELSE Return(mapped)
    /\ UNCHANGED <<first_ip, node, waittime, res, nodes, sleeps, response>>
    /\ UNCHANGED outside

list_images ==
    \E loc \in DATACENTERS \cup {None}, answer \in Answers(ImageRecords, MaxImages) :
        ListStep("list_images", loc,
                 Request("/api/grid/image/list", "GET", list_images_params(loc)),
                 answer, to_images(answer.list))

list_locations ==
    \E answer \in Answers(LocationRecords, MaxLocations) :
        ListStep("list_locations", None,
                 Request("/api/common/lookup/list", "GET", ("lookup" :> "ip.datacenter")),
                 answer, to_locations(answer.list))

\* The classifier's two methods called on a response directly.
ClassifierStep(o, r, outcome) ==
    /\ pc = "idle"
    /\ op' = o
    /\ pc' = "done"
    /\ response' = r
    /\ result' = outcome
    /\ UNCHANGED <<location, first_ip, node, waittime, res, nodes, reply,
                   lastRequest, nreq, sleeps>>
    /\ UNCHANGED outside

call_success == \E r \in Responses : ClassifierStep("success", r, success(r))

call_parse_error == \E r \in Responses : ClassifierStep("parse_error", r, parse_error(r))

\* _get_state called on a record.
call_get_state ==
    /\ pc = "idle"
    /\ \E s \in StateFields :
         /\ record' = [state |-> s]
         /\ result' = get_state_call(record')
    /\ op' = "_get_state"
    /\ pc' = "done"
    /\ UNCHANGED <<location, first_ip, node, waittime, res, nodes, reply,
                   lastRequest, nreq, sleeps, response>>
    /\ UNCHANGED <<signing, racing>>

\* get_uuid called on a Node mapped from a record.
call_get_uuid ==
    /\ pc = "idle"
    /\ \E el \in ServerRecords, password \in {None, "pw1"} :
         /\ node' = to_node(el, password)
         /\ result' = Return(get_uuid(node'))
    /\ op' = "get_uuid"
    /\ pc' = "done"
    /\ UNCHANGED <<location, first_ip, waittime, res, nodes, reply,
                   lastRequest, nreq, sleeps, response>>
    /\ UNCHANGED outside

Next ==
    \/ call_get_first_ip
    \/ call_ex_create_node_nowait
    \/ call_create_node
    \/ server_add
    \/ call_list_nodes
    \/ create_node_poll
    \/ list_nodes_password_list
    \/ create_node_scan
    \/ create_node_finish
    \/ reboot_node
    \/ destroy_node
    \/ list_images
    \/ list_locations
    \/ call_success
    \/ call_parse_error
    \/ call_get_state
    \/ call_get_uuid

Spec == Init /\ [][Next]_vars

-----------------------------------------------------------------------------
\* GoGridConnection: the mandated parameters and the signature. Keys and
\* secrets are sequences of characters, so that key+secret+str(...) is a
\* concatenation.

API_VERSION == "1.5"

md5_hexdigest(text) == <<"md5">> \o text

\* int(time.time()): the clock counts half seconds.
int_time(t) == t \div 2

\* hashlib.md5(key+secret+str(int(time.time()))).hexdigest(), at clock reading t
get_signature(k, secret, t) ==
    md5_hexdigest(k \o secret \o str_int(int_time(t)))

\* add_default_params leaving a parameter the caller supplied as it is.
add_default_params_setdefault(params) ==
    LET given == [k \in {"api_key", "v", "format", "sig"} |->
                    CASE k = "api_key" -> user_id
                      [] k = "v" -> API_VERSION
                      [] k = "format" -> "json"
                      [] k = "sig" -> get_signature(user_id, self_key, time_time)]
    IN [k \in DOMAIN params \cup DOMAIN given |-> IF k \in DOMAIN params THEN params[k] ELSE given[k]]

add_default_params(params) ==
    MapSet(MapSet(MapSet(MapSet(params,
        "api_key", user_id),
        "v", API_VERSION),
        "format", "json"),
        "sig", get_signature(user_id, self_key, time_time))

\* The credentials a connection is constructed with.
USER_IDS == { <<"a">>, <<"a", "b">> }
KEYS == { <<"c">>, <<"b", "c">> }

\* Parameters a caller hands to the connection, some under mandated names.
CallerParams ==
    { EmptyMap,
      [id |-> "id1"],
      [id |-> "id1", sig |-> <<"md5", "a", "c", "0">>],
      [api_key |-> <<"z">>, v |-> "1.0", format |-> "xml", sig |-> <<"md5", "z">>] }

\* The clock's first reading: second 8, the readings then cross 9 to 10.
Epoch == 17

SigInit ==
    /\ DriverInit
    /\ time_time = Epoch
    /\ user_id \in USER_IDS
    /\ self_key \in KEYS
    /\ wire = <<>>
    /\ RacingIdle

\* Half a second passes.
tick ==
    /\ time_time < Epoch + MaxTicks
    /\ time_time' = time_time + 1
    /\ UNCHANGED <<user_id, self_key, wire>>
    /\ UNCHANGED <<driver, racing>>

\* The connection builds the parameters of one request.
call_add_default_params ==
    /\ Len(wire) < MaxRequests
    /\ \E params \in CallerParams :
         wire' = Append(wire, [caller |-> params, time |-> time_time,
                               params |-> add_default_params(params)])
    /\ UNCHANGED <<time_time, user_id, self_key>>
    /\ UNCHANGED <<driver, racing>>

SigNext ==
    \/ tick
    \/ call_add_default_params

SigSpec == SigInit /\ [][SigNext]_vars

-----------------------------------------------------------------------------
\* Two ex_create_node_nowait calls interleaved against one provider, which
\* lists an address as unassigned until a server is added with it.

\* Lists of distinct addresses.
AddressLists == { l \in SeqsUpTo(IPS, MaxIps) : \A i, j \in 1..Len(l) : l[i] = l[j] => i = j }

\* The provider's answer to /api/grid/ip/list with ip.state = Unassigned.
unassigned_list == [exc |-> "none", list |-> [i \in 1..Len(unassigned) |-> [ip |-> unassigned[i]]]]

Without(list, ip) == LET other(x) == x # ip IN SelectSeq(list, other)

RaceInit ==
    /\ DriverInit
    /\ SigningIdle
    /\ flows = [f \in FLOWS |-> NoFlow]
    /\ unassigned \in AddressLists

\* Line 287 of ex_create_node_nowait, in flow f: the whole of _get_first_ip.
flow_get_first_ip(f) ==
    LET r == get_first_ip(unassigned_list) IN
    /\ flows[f].pc = "idle"
    /\ flows' = [flows EXCEPT ![f] =
                    IF r.raised
                    THEN [pc |-> "raised", first_ip |-> None, reply |-> unassigned_list, posted |-> None]
                    ELSE [pc |-> "server_add", first_ip |-> r.val, reply |-> unassigned_list, posted |-> None]]
    /\ UNCHANGED unassigned
    /\ UNCHANGED <<driver, signing>>

\* Lines 288-297 of ex_create_node_nowait, in flow f: the server-add POST.
\* The provider takes the address off its unassigned list.
flow_server_add(f) ==
    LET request == Request("/api/grid/server/add", "POST", server_add_params(flows[f].first_ip)) IN
    /\ flows[f].pc = "server_add"
    /\ flows' = [flows EXCEPT ![f] = [@ EXCEPT !.pc = "done", !.posted = request.params["ip"]]]
    /\ unassigned' = Without(unassigned, request.params["ip"])
    /\ UNCHANGED <<driver, signing>>

\* Another client of the account takes an unassigned address.
other_allocator ==
    /\ \E i \in 1..Len(unassigned) : unassigned' = Without(unassigned, unassigned[i])
    /\ UNCHANGED flows
    /\ UNCHANGED <<driver, signing>>

RaceNext ==
    \/ \E f \in FLOWS : flow_get_first_ip(f)
    \/ \E f \in FLOWS : flow_server_add(f)
    \/ other_allocator

RaceSpec == RaceInit /\ [][RaceNext]_vars

-----------------------------------------------------------------------------
\* Properties.

SERVER_LIST == "/api/grid/server/list"
PASSWORD_LIST == "/api/support/password/list"
IP_LIST == "/api/grid/ip/list"

CreateNodeReturned == op = "create_node" /\ pc = "done" /\ ~result.raised

\* create_node left the loop because the accumulated wait reached the timeout.
DeadlineReached == op = "create_node" /\ pc = "done" /\ node.id = None /\ waittime >= timeout

\* C1: create_node never returns a Node whose id is None: a run that ends
\* returns an identified Node or raises.
C1_ReturnedNodeHasId == CreateNodeReturned => result.val.id # None

\* C2: when the deadline is reached without a matching identified record,
\* create_node raises the id-allocation error, and no poll was issued after
\* the deadline.
C2_TimeoutRaises ==
    DeadlineReached =>
        /\ result.raised
        /\ result.exc = "Exception"
        /\ nreq[SERVER_LIST] * interval <= timeout

\* Indexes of the records of list that carry n's first public address and an id.
Matches(list, n) ==
    { i \in 1..Len(list) : list[i].public_ip[1] = n.public_ip[1] /\ list[i].id # None }

Least(S) == CHOOSE i \in S : \A j \in S : i <= j

\* C3: a poll whose list holds a record with the created node's address and
\* an id ends create_node at once: the first such record in list order is
\* returned, with no further request and no further sleep.
C3_FirstMatchReturned ==
    [][ (op = "create_node" /\ pc = "scan" /\ Matches(nodes, node) # {}) =>
          /\ pc' = "done"
          /\ ~result'.raised
          /\ result'.val = nodes[Least(Matches(nodes, node))]
          /\ result'.val # node
          /\ nreq' = nreq
          /\ sleeps' = sleeps
          /\ waittime' = waittime ]_vars

C3_Witness ==
    /\ CreateNodeReturned
    /\ node.id = None
    /\ sleeps >= 1
    /\ Len(nodes) = 2
    /\ Matches(nodes, node) = {1, 2}
    /\ nodes[1].id # nodes[2].id
    /\ result.val = nodes[1]

\* Steps the polling loop can still take, counted from the position in the
\* loop and the wait that is left.
Remaining ==
    3 * ((timeout - waittime) \div interval)
      + (CASE pc = "while" -> 3 [] pc = "password_list" -> 2 [] pc = "scan" -> 1 [] OTHER -> 0)

InLoop == op = "create_node" /\ pc \in {"while", "password_list", "scan"}

\* C4: the polling loop terminates: the accumulated wait is the number of
\* sleeps times the interval and never passes the timeout, every step of the
\* loop brings it nearer its end, and at most timeout / interval polls are issued.
C4_LoopBounded ==
    /\ [](op = "create_node" =>
            /\ waittime = sleeps * interval
            /\ waittime <= timeout
            /\ nreq[SERVER_LIST] <= timeout \div interval
            /\ nreq[SERVER_LIST] <= 10
            /\ nreq[SERVER_LIST] <= sleeps + 1
            /\ Remaining >= 0)
    /\ [][InLoop => Remaining' < Remaining]_vars

C4_Witness == DeadlineReached /\ nreq[SERVER_LIST] = 10 /\ sleeps = 10 /\ waittime = 1200

ListNodesDone == op = "list_nodes" /\ pc = "done"

\* Node i of the result is the node of server record i.
SameServer(n, el) == n.id = el.id /\ n.public_ip = <<el.ip.ip>> /\ n.name = el.name

\* C5: with the server list fetched and the password fetch raising
\* InvalidCredsError, list_nodes returns one Node per server record, in
\* order, none with a password.
C5_PasswordAuthErrorSwallowed ==
    (ListNodesDone /\ lastRequest.path = PASSWORD_LIST /\ reply.exc = "InvalidCredsError") =>
        /\ ~result.raised
        /\ Len(result.val) = Len(res)
        /\ \A i \in 1..Len(res) :
             /\ SameServer(result.val[i], res[i])
             /\ "password" \notin DOMAIN result.val[i].extra

C5_Witness ==
    /\ ListNodesDone
    /\ lastRequest.path = PASSWORD_LIST
    /\ reply.exc = "InvalidCredsError"
    /\ ~result.raised
    /\ Len(res) = 2
    /\ res[1].id = "id1"

\* Indexes of the password entries that have both fields and name id.
EntriesFor(list, id) ==
    { k \in 1..Len(list) :
        list[k].has_server_id /\ list[k].has_password /\ list[k].server_id = id }

Greatest(S) == CHOOSE i \in S : \A j \in S : j <= i

PasswordsFetched == ListNodesDone /\ ~result.raised /\ reply.exc = "none"

\* C6 as stated: one Node per server record in order, and a Node carries a
\* password exactly when some entry names its record's id, the value being the
\* password of such an entry.
C6_PasswordIffEntry ==
    PasswordsFetched =>
        /\ Len(result.val) = Len(res)
        /\ \A i \in 1..Len(res) :
             LET E == EntriesFor(reply.list, res[i].id) IN
             /\ SameServer(result.val[i], res[i])
             /\ ("password" \in DOMAIN result.val[i].extra) <=> (E # {})
             /\ E # {} =>
                  \E k \in E : result.val[i].extra.password = reply.list[k].password

\* C6, amended: one Node per server record in order, and a Node carries a
\* password exactly when the last entry naming its record's id has a
\* non-empty password, which is then the value; entries lacking a field are
\* passed over.
C6_PasswordIffLastEntryNonEmpty ==
    PasswordsFetched =>
        /\ Len(result.val) = Len(res)
        /\ \A i \in 1..Len(res) :
             LET E == EntriesFor(reply.list, res[i].id) IN
             /\ SameServer(result.val[i], res[i])
             /\ ("password" \in DOMAIN result.val[i].extra)
                  <=> (E # {} /\ reply.list[Greatest(E)].password # "")
             /\ "password" \in DOMAIN result.val[i].extra =>
                  result.val[i].extra.password = reply.list[Greatest(E)].password

\* Two records, one of them correlated by the second of two entries, the
\* other entry lacking its password field.
C6_Witness ==
    /\ PasswordsFetched
    /\ Len(res) = 2
    /\ Len(reply.list) = 2
    /\ ~reply.list[1].has_password
    /\ "password" \in DOMAIN result.val[1].extra
    /\ result.val[1].extra.password = reply.list[2].password
    /\ "password" \notin DOMAIN result.val[2].extra

NOT_JSON == {"<html>Bad Gateway</html>"}

\* C7: success() classifies by status first (403, 401: InvalidCredsError,
\* whatever the body), then an empty body gives None, then a body that is
\* not JSON raises MalformedResponseError with the body.
C7_SuccessPriority ==
    (op = "success" /\ pc = "done") =>
        /\ response.status = 403 =>
             result.raised /\ result.exc = "InvalidCredsError" /\ result.msg = "Invalid credentials"
        /\ response.status = 401 =>
             /\ result.raised /\ result.exc = "InvalidCredsError"
             /\ result.msg = "API Key has insufficient rights"
        /\ (response.status \notin {401, 403} /\ response.body = "") =>
             ~result.raised /\ result.val = None
        /\ (response.status \notin {401, 403} /\ response.body \in NOT_JSON) =>
             /\ result.raised /\ result.exc = "MalformedResponseError"
             /\ result.msg = response.body

C7_Witness ==
    /\ op = "success" /\ pc = "done"
    /\ response.status = 403
    /\ response.body = ""
    /\ result.raised

\* C8: parse_error never raises, whatever the body.
C8_ParseErrorNeverRaises == (op = "parse_error" /\ pc = "done") => ~result.raised

PowerDone == op \in {"reboot_node", "destroy_node"} /\ pc = "done"

\* C9: reboot_node and destroy_node return True only on a response the
\* classifier calls a success, and on one it calls a non-success (False or
\* None) they raise the generic error with the message of the first list entry.
C9_PowerRaisesGenericError ==
    (PowerDone /\ reply.exc = "none") =>
        LET s == success(response) IN
        /\ (~result.raised) => (result.val = PyTrue /\ ~s.raised /\ s.val = PyTrue)
        /\ (~s.raised /\ s.val # PyTrue) =>
             /\ result.raised /\ result.exc = "Exception"
             /\ result.msg = parse_error(response).val

\* C10: _get_first_ip raises LibcloudError on an empty list, returns the
\* first entry's address of any other, and sends the datacenter filter
\* exactly when a location is given.
C10_FirstIp ==
    (op = "_get_first_ip" /\ pc = "done") =>
        /\ lastRequest.path = IP_LIST
        /\ ("datacenter" \in DOMAIN lastRequest.params) <=> (location # None)
        /\ location # None => lastRequest.params["datacenter"] = location
        /\ (reply.exc = "none" /\ Len(reply.list) = 0) =>
             /\ result.raised /\ result.exc = "LibcloudError"
             /\ result.msg = "No public unassigned IPs left"
        /\ (reply.exc = "none" /\ Len(reply.list) > 0) =>
             ~result.raised /\ result.val = reply.list[1].ip

C10_Witness ==
    /\ op = "_get_first_ip" /\ pc = "done"
    /\ location = "dc1"
    /\ Len(reply.list) = 2
    /\ reply.list[1].ip # reply.list[2].ip
    /\ result.val = reply.list[1].ip

\* C11: _get_state maps 'Starting', 'Off', 'Saving' and 'Restoring' to
\* PENDING, 'On' to RUNNING, 'Restarting' to REBOOTING, and every other name
\* and every record with an absent or malformed state to UNKNOWN; it never raises.
C11_StateMapping ==
    (op = "_get_state" /\ pc = "done") =>
        LET s == record.state
            named(n) == s.kind = "object" /\ s.has_name /\ s.name = n
        IN
        /\ ~result.raised
        /\ (\E n \in {"Starting", "Off", "Saving", "Restoring"} : named(n)) <=> result.val = "PENDING"
        /\ named("On") <=> result.val = "RUNNING"
        /\ named("Restarting") <=> result.val = "REBOOTING"
        /\ (~\E n \in {"Starting", "Off", "Saving", "Restoring", "On", "Restarting"} : named(n))
             <=> result.val = "UNKNOWN"

C11_Witness ==
    /\ op = "_get_state" /\ pc = "done"
    /\ record.state.kind = "string"
    /\ ~result.raised
    /\ result.val = "UNKNOWN"

RECURSIVE SumOver(_)
SumOver(S) == IF S = {} THEN 0 ELSE LET p == CHOOSE q \in S : TRUE IN nreq[p] + SumOver(S \ {p})

TotalRequests == SumOver(ENDPOINTS)

\* The request of a single-request method failed and nothing swallowed it.
RequestFailed == reply.exc # "none" /\ ~(lastRequest.path = PASSWORD_LIST /\ reply.exc = "InvalidCredsError")

C13_OnlyPasswordAuthSwallowed ==
    reply.exc # "none" =>
        IF lastRequest.path = PASSWORD_LIST /\ reply.exc = "InvalidCredsError"
        THEN op = "list_nodes" /\ pc = "done" /\ ~result.raised
        ELSE pc = "done" /\ result.raised /\ result.exc = reply.exc

\* A poll of create_node, after an unresolved one, whose password fetch
\* fails in transport.
C13_Witness ==
    /\ op = "create_node" /\ pc = "done"
    /\ sleeps >= 1
    /\ lastRequest.path = PASSWORD_LIST
    /\ reply.exc = "socket.error"
    /\ result.raised /\ result.exc = "socket.error"

\* A step that ends the call without a request or a sleep and without
\* returning an unidentified Node.
AbortStep ==
    /\ pc' = "done"
    /\ nreq' = nreq
    /\ sleeps' = sleeps
    /\ IF result'.raised THEN TRUE ELSE result'.val.id # None

\* C14: while create_node waits for the id (the loop condition holds, the
\* deadline is not reached) the caller can abort: a step exists that ends the
\* call with no further poll or sleep and without an unidentified Node.
C14_WaitAbortable ==
    (op = "create_node" /\ pc = "while" /\ loop_condition(node, waittime)) =>
        ENABLED (Next /\ AbortStep)

CreateOps == {"create_node", "ex_create_node_nowait"}

SERVER_ADD == "/api/grid/server/add"

\* C16: in ex_create_node_nowait (and create_node) the IP list request comes
\* before the server-add POST, the POST's 'ip' is the address the allocation
\* returned, and when no unassigned IP is left the error ends the call with
\* no POST and no list_nodes poll.
C16_IpBeforeAdd ==
    /\ [](op \in CreateOps =>
            /\ nreq[SERVER_ADD] <= nreq[IP_LIST]
            /\ nreq[IP_LIST] <= 1
            /\ nreq[SERVER_LIST] > 0 => nreq[SERVER_ADD] = 1
            /\ (pc = "done" /\ result.raised /\ result.exc = "LibcloudError") =>
                 /\ nreq[SERVER_ADD] = 0
                 /\ nreq[SERVER_LIST] = 0
                 /\ nreq[PASSWORD_LIST] = 0
                 /\ sleeps = 0)
    /\ [][pc = "server_add" =>
            /\ lastRequest.path = IP_LIST
            /\ first_ip = reply.list[1].ip
            /\ lastRequest'.path = SERVER_ADD
            /\ lastRequest'.method = "POST"
            /\ lastRequest'.params["ip"] = first_ip]_vars

C16_Witness ==
    /\ op = "ex_create_node_nowait" /\ pc = "done"
    /\ ~result.raised
    /\ lastRequest.path = SERVER_ADD
    /\ lastRequest.params["ip"] = "ip2"
    /\ nreq[IP_LIST] = 1 /\ nreq[SERVER_ADD] = 1

\* C20: when the provisioning response carries an id, create_node returns
\* the Node mapped from it at once: no list_nodes request, no sleep, and no
\* password on the Node.
C20_IdentifiedAtOnce ==
    (CreateNodeReturned /\ node.id # None) =>
        /\ result.val = node
        /\ lastRequest.path = SERVER_ADD
        /\ SameServer(result.val, reply.list[1])
        /\ "password" \notin DOMAIN result.val.extra
        /\ nreq[SERVER_LIST] = 0
        /\ nreq[PASSWORD_LIST] = 0
        /\ sleeps = 0
        /\ waittime = 0

C20_Witness ==
    /\ CreateNodeReturned
    /\ node.id = "id2"
    /\ result.val.id = "id2"
    /\ nreq[SERVER_ADD] = 1

\* Bodies that are a JSON object, of either envelope shape.
ENVELOPES ==
    { "{\"status\":\"success\"}",
      "{\"status\":\"success\",\"list\":[{\"id\":1}]}",
      "{\"status\":\"failure\"}",
      "{\"status\":\"failure\",\"list\":[]}",
      "{\"status\":\"failure\",\"list\":[{\"message\":\"Server not found\"}]}",
      "{\"list\":[]}",
      "{\"list\":[{\"message\":\"Server not found\"}]}" }

STATUS_SUCCESS == { "{\"status\":\"success\"}", "{\"status\":\"success\",\"list\":[{\"id\":1}]}" }

\* C18: for a status other than 401 and 403 and a body that is a JSON
\* envelope of either shape, success() returns a boolean, true exactly when
\* the status field is 'success'; it raises nothing but the authentication
\* error and the malformed-response error.
C18_EnvelopeBoolean ==
    (op = "success" /\ pc = "done") =>
        /\ (response.status \notin {401, 403} /\ response.body \in ENVELOPES) =>
             /\ ~result.raised
             /\ result.val \in {PyTrue, PyFalse}
             /\ result.val = PyTrue <=> response.body \in STATUS_SUCCESS
        /\ result.raised => result.exc \in {"InvalidCredsError", "MalformedResponseError"}

\* The Nodes the current state holds.
NodesHeld == { nodes[i] : i \in 1..Len(nodes) } \cup {node}

\* C19: get_uuid depends on the public address (and the provider type)
\* alone: the unidentified Node of ex_create_node_nowait and the identified
\* Node create_node returns for it have the same uuid, Nodes with the same
\* address have the same uuid whatever their id, state or password, and Nodes
\* with different addresses have different uuids.
C19_UuidFromAddress ==
    /\ (CreateNodeReturned /\ node.id = None /\ result.val.id # None) =>
         get_uuid(result.val) = get_uuid(node)
    /\ \A a, b \in NodesHeld : (a.public_ip = b.public_ip) <=> (get_uuid(a) = get_uuid(b))
    /\ (op = "get_uuid" /\ pc = "done") =>
         result.val = <<"sha1", "[", "u'", node.public_ip[1], "'", "]", ":", "5">>

C19_Witness ==
    /\ CreateNodeReturned
    /\ node.id = None
    /\ Len(nodes) = 2
    /\ nodes[1].public_ip # nodes[2].public_ip
    /\ result.val = nodes[2]
    /\ result.val.id = "id1"
    /\ "password" \in DOMAIN result.val.extra

MANDATED == {"api_key", "v", "format", "sig"}

\* C15: every parameter set the connection builds carries api_key, v, format
\* and sig with the mandated values, whatever the caller supplied under those
\* names, and keeps the caller's other parameters; sig is the digest of
\* (api key, secret, the second read when that set was built), so two sets
\* have the same sig exactly when they were built in the same second.
C15_SignedAtBuildTime ==
    /\ \A i \in 1..Len(wire) :
         LET p == wire[i].params
             second == wire[i].time \div 2
         IN /\ MANDATED \subseteq DOMAIN p
            /\ p["sig"] = <<"md5">> \o user_id \o self_key \o str_int(second)
            /\ p["api_key"] = user_id
            /\ p["v"] = "1.5"
            /\ p["format"] = "json"
            /\ \A k \in DOMAIN wire[i].caller \ MANDATED : p[k] = wire[i].caller[k]
            /\ DOMAIN p = DOMAIN wire[i].caller \cup MANDATED
    /\ \A i, j \in 1..Len(wire) :
         (wire[i].time \div 2 = wire[j].time \div 2) <=> (wire[i].params["sig"] = wire[j].params["sig"])

C15_Witness ==
    /\ Len(wire) = 2
    /\ wire[1].time \div 2 = 9
    /\ wire[2].time \div 2 = 10
    /\ "sig" \in DOMAIN wire[2].caller
    /\ wire[2].params["sig"] # wire[2].caller["sig"]
    /\ wire[1].params["sig"] # wire[2].params["sig"]

\* C17: the address _get_first_ip returns is no reservation. A create call
\* that lists the addresses is given the head of the provider's unassigned
\* list even while another create call holds that address and has not yet
\* POSTed, and its POST carries the address it was given whether or not the
\* address is still unassigned: nothing is locked or checked again between
\* the list and the POST.
C17_NoReservation ==
    /\ [](\A f \in FLOWS :
            /\ flows[f].pc = "server_add" => flows[f].first_ip = flows[f].reply.list[1].ip
            /\ flows[f].pc = "done" => flows[f].posted = flows[f].reply.list[1].ip)
    /\ [][\A f \in FLOWS :
            /\ (flows[f].pc = "idle" /\ unassigned # <<>>) =>
                 (flows'[f].pc = "idle" \/ (flows'[f].pc = "server_add" /\ flows'[f].first_ip = unassigned[1]))
            /\ (flows[f].pc = "server_add" /\ flows'[f].pc # "server_add") =>
                 (flows'[f].pc = "done" /\ flows'[f].posted = flows[f].first_ip)]_vars

\* Both calls were given the same address before either POSTed (the provider
\* lists an address only until the first POST with it), and both POSTed it.
C17_Witness ==
    /\ flows["flow1"].pc = "done"
    /\ flows["flow2"].pc = "done"
    /\ flows["flow1"].posted = "ip1"
    /\ flows["flow2"].posted = "ip1"
    /\ flows["flow1"].reply.list = flows["flow2"].reply.list

====
